---------------------------- MODULE Spec2Model ----------------------------
(***************************************************************************)
(* A model of sudoku.py: the coordinate mapper get_idx, the copying board  *)
(* update set_value, the legality check check_legal, the randomized        *)
(* backtracking generator makeBoard, the masker hide_portion_of_board and  *)
(* the command loop of game.                                               *)
(*                                                                         *)
(* numpy arrays are objects: a variable holds a reference into `heap`, and *)
(* board.copy() allocates.  The random draws of np.random are inputs; the  *)
(* first draws of makeBoard are taken from one of two reference runs (the  *)
(* variable `seed`), every later draw is unrestricted.                     *)
(***************************************************************************)
EXTENDS Integers, Sequences, FiniteSets, TLC

VARIABLES
    heap,             \* the live numpy arrays: reference -> 3x3x3x3 array
    init_board,       \* makeBoard: reference of the board being generated
    row_idx, col_idx, \* makeBoard: the cursor
    possible_values,  \* makeBoard: the candidate pool of the cursor cell
    val,              \* makeBoard: the candidate last drawn
    complete_board,   \* game: reference of the solution
    user_board,       \* game: reference of the working board (hidden_board in the masker)
    num_to_hide, i,   \* hide_portion_of_board: number of draws, loop counter
    hints,            \* game: parameter
    reply,            \* game: <<row, col, val>> of the last play command
    override_reply,   \* game: the answer to the last hint prompt ("" when none)
    saved,            \* the .npy files written by save: <<>> or <<usr, sol>>
    outcome,          \* what the session printed last, or the exception that ended it
    seed,             \* which reference run feeds the first draws
    generated,        \* history: the array makeBoard returned (<<>> before it returns)
    written,          \* history: how often each candidate was written since the pool was reset
    in_board, out_board, \* a direct call of set_value or check_legal: argument, result
    pc                \* the position in the program

vars == <<heap, init_board, row_idx, col_idx, possible_values, val,
          complete_board, user_board, num_to_hide, i, hints, reply,
          override_reply, saved, outcome, seed, generated, written, in_board,
          out_board, pc>>

callVars == <<in_board, out_board>>
genVars == <<init_board, row_idx, col_idx, possible_values, val, written>>
gameVars == <<complete_board, user_board, num_to_hide, i, hints, reply,
              override_reply, saved, outcome>>

-----------------------------------------------------------------------------
(* Bounds and inputs *)

\* The number of trailing cells of the completable reference run whose
\* draws are unrestricted.
FreeCells == 9

\* A complete valid grid, row-major: the draws of the completable run.
Solved ==
    << 5,3,4,6,7,8,9,1,2,
       6,7,2,1,9,5,3,4,8,
       1,9,8,3,4,2,5,6,7,
       8,5,9,7,6,1,4,2,3,
       4,2,6,8,5,3,7,9,1,
       7,1,3,9,2,4,8,5,6,
       9,6,1,5,3,7,2,8,4,
       2,8,7,4,1,9,6,3,5,
       3,4,5,2,8,6,1,7,9 >>

\* 44 pairwise conflict-free draws: the start of the second reference run.
Stalled ==
    << 8,1,2,6,3,9,4,7,5,
       3,5,7,8,4,1,9,2,6,
       6,9,4,7,5,2,1,3,8,
       2,4,9,5,1,3,6,8,7,
       7,8,1,9,6,4,2,5 >>

Seeds == {"solved", "stalled"}

\* The first flat position whose draw is unrestricted.
FreeFrom(s) == IF s = "solved" THEN Len(Solved) - FreeCells ELSE Len(Stalled)

Reference(s) == IF s = "solved" THEN Solved ELSE Stalled

-----------------------------------------------------------------------------
(* get_idx *)

AssertionError == <<"AssertionError">>

\* Mutants of get_idx: no range check; the block row of rows 3..5 and 6..8
\* exchanged; the block column of columns 6..8 left at 1.
get_idx_clamped(row, col) ==
    LET r == IF row < 0 THEN 0 ELSE IF row > 8 THEN 8 ELSE row
        c == IF col < 0 THEN 0 ELSE IF col > 8 THEN 8 ELSE col
    IN  <<r \div 3, c \div 3, r % 3, c % 3>>

get_idx_swapped(row, col) ==
    IF ~(0 <= row /\ row <= 8 /\ 0 <= col /\ col <= 8) THEN AssertionError
    ELSE <<IF row <= 2 THEN 0 ELSE IF row <= 5 THEN 2 ELSE 1, col \div 3, row % 3, col % 3>>

get_idx_stale(row, col) ==
    IF ~(0 <= row /\ row <= 8 /\ 0 <= col /\ col <= 8) THEN AssertionError
    ELSE <<row \div 3, IF col <= 2 THEN 0 ELSE 1, row % 3, col % 3>>

get_idx(row_, col_) ==
    IF ~(0 <= row_ /\ row_ <= 8 /\ 0 <= col_ /\ col_ <= 8) THEN AssertionError
    ELSE LET innerRow == IF 0 <= row_ /\ row_ <= 2 THEN row_
                         ELSE IF 3 <= row_ /\ row_ <= 5 THEN row_ - 3
                         ELSE row_ - 6
             cellRows == IF 0 <= row_ /\ row_ <= 2 THEN 0
                         ELSE IF 3 <= row_ /\ row_ <= 5 THEN 1
                         ELSE 2
             elem     == IF 0 <= col_ /\ col_ <= 2 THEN col_
                         ELSE IF 3 <= col_ /\ col_ <= 5 THEN col_ - 3
                         ELSE col_ - 6
             cell     == IF 0 <= col_ /\ col_ <= 2 THEN 0
                         ELSE IF 3 <= col_ /\ col_ <= 5 THEN 1
                         ELSE 2
         IN  <<cellRows, cell, innerRow, elem>>

-----------------------------------------------------------------------------
(* Arrays and the heap *)

Axis == 0 .. 2

\* np.zeros((3, 3, 3, 3))
zeros == [a \in Axis |-> [b \in Axis |-> [c \in Axis |-> [d \in Axis |-> 0]]]]

\* board[idx] for an index tuple
At(board, idx) == board[idx[1]][idx[2]][idx[3]][idx[4]]

NoRef == 0

\* The smallest reference not in use.
Fresh(h) == CHOOSE r \in 1 .. (Cardinality(DOMAIN h) + 1) : r \notin DOMAIN h

\* Mutant of copy: the same array under a second name.
copy_alias(h, b) == [heap |-> h, out |-> b]

\* ndarray.copy(): a new array with the same contents.
copy(h, b) == LET r == Fresh(h) IN [heap |-> (r :> h[b]) @@ h, out |-> r]

\* Mutant of set_value: the write goes to the array passed in.
set_value_inplace(row, col, b, value, h) ==
    LET idx == get_idx(row, col)
    IN  IF idx = AssertionError
        THEN [heap |-> h, out |-> NoRef, raised |-> TRUE]
        ELSE [heap |-> [h EXCEPT ![b][idx[1]][idx[2]][idx[3]][idx[4]] = value],
              out |-> b, raised |-> FALSE]

\* set_value: the copy is made first, then get_idx may raise; the write goes
\* to the copy.  `raised` tells an exception from a returned board.
set_value(row, col, b, value, h) ==
    LET c   == copy(h, b)
        idx == get_idx(row, col)
    IN  IF idx = AssertionError
        THEN [heap |-> h, out |-> NoRef, raised |-> TRUE]
        ELSE [heap |-> [c.heap EXCEPT ![c.out][idx[1]][idx[2]][idx[3]][idx[4]] = value],
              out |-> c.out, raised |-> FALSE]

\* Rebinding a variable drops its old array: the arrays no variable refers
\* to are collected, and the references are renamed in the order of the
\* variables <<init_board / complete_board, user_board>>.
Collect(h, first, second) ==
    LET n1 == IF first = NoRef THEN NoRef ELSE 1
        n2 == IF second = NoRef THEN NoRef
              ELSE IF second = first THEN n1
              ELSE IF first = NoRef THEN 1 ELSE 2
        live == {n1, n2} \ {NoRef}
    IN  [heap |-> [r \in live |-> IF r = n1 THEN h[first] ELSE h[second]],
         first |-> n1, second |-> n2]

-----------------------------------------------------------------------------
(* check_legal *)

\* The positions of a flattened 3x3 slice
Flattened == 1 .. 9

\* Mutant of Several: an off-by-one threshold.
Several_two(area, v) == Cardinality({n \in Flattened : area[n] = v}) > 2

\* np.count_nonzero(area == val) > 1
Several(area, v) == Cardinality({n \in Flattened : area[n] = v}) > 1

\* Mutant of check_legal: the column is not inspected.
check_legal_nocols(row, col, board) ==
    LET idx == get_idx(row, col)
        v   == At(board, idx)
        current_cell_values ==
            [n \in Flattened |-> board[idx[1]][idx[2]][(n - 1) \div 3][(n - 1) % 3]]
        horizontal_to_val ==
            [n \in Flattened |-> board[idx[1]][(n - 1) \div 3][idx[3]][(n - 1) % 3]]
    IN  IF v = 0 THEN FALSE
        ELSE ~Several(current_cell_values, v) /\ ~Several(horizontal_to_val, v)

\* check_legal; the three slices are board[cellRows, cell, :, :],
\* board[cellRows, :, innerRow, :] and board[:, cell, :, elem], flattened.
check_legal(row, col, board) ==
    LET idx == get_idx(row, col)
        v   == At(board, idx)
        current_cell_values ==
            [n \in Flattened |-> board[idx[1]][idx[2]][(n - 1) \div 3][(n - 1) % 3]]
        horizontal_to_val ==
            [n \in Flattened |-> board[idx[1]][(n - 1) \div 3][idx[3]][(n - 1) % 3]]
        vertical_to_val ==
            [n \in Flattened |-> board[(n - 1) \div 3][idx[2]][(n - 1) % 3][idx[4]]]
    IN  IF v = 0 THEN FALSE
        ELSE /\ ~Several(current_cell_values, v)
             /\ ~Several(horizontal_to_val, v)
             /\ ~Several(vertical_to_val, v)

-----------------------------------------------------------------------------
(* makeBoard *)

rollback_factor == 8

\* Mutant of Min: the sum.
Min_sum(a, b) == a + b

Min(a, b) == IF a < b THEN a ELSE b

\* range(10)
FullPool == 0 .. 9

\* No candidate has been written since lines 47-48 or 60-61
NoneWritten == [v \in 0 .. 9 |-> 0]

\* Mutant of Choices: a digit is drawn whether or not it is still in the pool.
Choices_again(pool) ==
    LET p == 9 * row_idx + col_idx
    IN  IF p < FreeFrom(seed) THEN {Reference(seed)[p + 1]} ELSE 1 .. 9

\* np.random.choice(possible_values): any element, or the reference run's
\* draw while the cursor is before the first unrestricted position.
Choices(pool) ==
    LET p == 9 * row_idx + col_idx
    IN  IF p < FreeFrom(seed) THEN pool \cap {Reference(seed)[p + 1]} ELSE pool

\* The state at the while-condition of line 49.
AtCheck == pc = "makeBoard"

\* Mutant of Legal: any non-empty cell passes.
Legal_filled == At(heap[init_board], get_idx(row_idx, col_idx)) # 0

Legal == check_legal(row_idx, col_idx, heap[init_board])

\* Mutant of NoneLeft: two candidates may remain.
NoneLeft_two == Cardinality(possible_values) <= 2

\* Line 50: len(possible_values) == 0
NoneLeft == possible_values = {}

Init ==
    /\ heap = (1 :> zeros)
    /\ init_board = 1
    /\ row_idx = 0 /\ col_idx = 0
    /\ possible_values = FullPool
    /\ val = 0
    /\ complete_board = NoRef /\ user_board = NoRef
    /\ num_to_hide = 0 /\ i = 0
    /\ hints = FALSE
    /\ reply = <<>>
    /\ override_reply = ""
    /\ saved = <<>>
    /\ outcome = ""
    /\ seed \in Seeds
    /\ generated = <<>>
    /\ written = NoneWritten
    /\ in_board = NoRef /\ out_board = NoRef
    /\ pc = "makeBoard"

\* Lines 68, 46-48: the cell is legal, the cursor moves right in its row.
Advance ==
    /\ AtCheck /\ Legal
    /\ col_idx + 1 < 9
    /\ col_idx' = col_idx + 1
    /\ possible_values' = FullPool
    /\ val' = 0
    /\ written' = NoneWritten
    /\ UNCHANGED <<heap, init_board, row_idx, gameVars, callVars, seed, generated, pc>>

\* Lines 68-70, 45-48: the last cell of a row is legal, the next row starts.
NextRow ==
    /\ AtCheck /\ Legal
    /\ col_idx + 1 >= 9
    /\ row_idx + 1 < 9
    /\ row_idx' = row_idx + 1
    /\ col_idx' = 0
    /\ possible_values' = FullPool
    /\ val' = 0
    /\ written' = NoneWritten
    /\ UNCHANGED <<heap, init_board, gameVars, callVars, seed, generated, pc>>

\* Lines 68-71 and 161: the last cell is legal, makeBoard returns its board
\* to game; its locals are gone.
Return ==
    /\ AtCheck /\ Legal
    /\ col_idx + 1 >= 9
    /\ row_idx + 1 >= 9
    /\ complete_board' = init_board
    /\ init_board' = NoRef
    /\ row_idx' = 0 /\ col_idx' = 0
    /\ possible_values' = {}
    /\ val' = 0
    /\ written' = NoneWritten
    /\ pc' = "game"
    /\ generated' = heap[init_board]
    /\ UNCHANGED <<heap, user_board, num_to_hide, i, hints, reply,
                   override_reply, saved, outcome, callVars, seed>>

\* Lines 63-65: the failed candidate was the last of the pool.
Exhaust ==
    /\ AtCheck /\ ~Legal
    /\ ~NoneLeft
    /\ possible_values \ {val} = {}
    /\ possible_values' = {}
    /\ UNCHANGED <<heap, init_board, row_idx, col_idx, val, written, gameVars, callVars,
                   seed, generated, pc>>

\* Lines 63-67: the failed candidate leaves the pool, a new one is drawn
\* and written to the cursor cell.
Place ==
    /\ AtCheck /\ ~Legal
    /\ ~NoneLeft
    /\ possible_values \ {val} # {}
    /\ \E v \in Choices(possible_values \ {val}) :
       \E s \in {set_value(row_idx, col_idx, init_board, v, heap)} :
       \E g \in {Collect(s.heap, s.out, NoRef)} :
          /\ possible_values' = possible_values \ {val}
          /\ val' = v
          /\ written' = [written EXCEPT ![v] = @ + 1]
          /\ heap' = g.heap
          /\ init_board' = g.first
    /\ UNCHANGED <<row_idx, col_idx, gameVars, callVars, seed, generated, pc>>

\* Mutant of Zeroed: the cell keeps its value.
Zeroed_skip(row, col, b, h) == [heap |-> h, board |-> b, raised |-> FALSE]

\* Line 54: init_board = set_value(row_idx, col_idx, init_board, value=0)
Zeroed(row, col, b, h) ==
    LET s == set_value(row, col, b, 0, h)
        g == Collect(s.heap, s.out, NoRef)
    IN  IF s.raised THEN [heap |-> h, board |-> b, raised |-> TRUE]
        ELSE [heap |-> g.heap, board |-> g.first, raised |-> FALSE]

\* Lines 53-59: k iterations of "zero the cursor cell, step the cursor back";
\* z is the one result of the iteration's call.
RECURSIVE Undo(_, _, _, _, _)
Undo(k, row, col, b, h) ==
    IF k = 0 THEN [heap |-> h, board |-> b, row |-> row, col |-> col, raised |-> FALSE]
    ELSE CHOOSE u \in
            {IF z.raised
             THEN [heap |-> h, board |-> b, row |-> row, col |-> col, raised |-> TRUE]
             ELSE IF col > 0 THEN Undo(k - 1, row, col - 1, z.board, z.heap)
             ELSE Undo(k - 1, row - 1, 8, z.board, z.heap) : z \in {Zeroed(row, col, b, h)}} : TRUE

\* Lines 50-61: the pool is empty, roll back and start over with a full pool.
Rollback ==
    /\ AtCheck /\ ~Legal
    /\ NoneLeft
    /\ LET rollbacks == Min(rollback_factor, col_idx + row_idx * 8)
           u == Undo(rollbacks, row_idx, col_idx, init_board, heap)
       IN  /\ heap' = u.heap
           /\ init_board' = u.board
           /\ row_idx' = u.row
           /\ col_idx' = u.col
           /\ IF u.raised
              THEN /\ pc' = "crashed"
                   /\ outcome' = "AssertionError"
                   /\ UNCHANGED <<possible_values, val, written>>
              ELSE /\ possible_values' = FullPool
                   /\ val' = 0
                   /\ written' = NoneWritten
                   /\ UNCHANGED <<pc, outcome>>
    /\ UNCHANGED <<complete_board, user_board, num_to_hide, i, hints, reply,
                   override_reply, saved, callVars, seed, generated>>

-----------------------------------------------------------------------------
(* hide_portion_of_board *)

\* The difficulty fractions tried, as <<numerator, denominator>>.
Difficulties == {<<0, 1>>, <<1, 10>>, <<1, 1>>}

\* The (row, col) pairs np.random.randint(0, 9, ...) is let to draw.
HideDraws == {<<0, 3>>, <<4, 4>>, <<8, 8>>}

\* np.prod(board.shape)
Size == Cardinality(Axis) * Cardinality(Axis) * Cardinality(Axis) * Cardinality(Axis)

\* int(np.prod(board.shape) * difficulty)
NumToHide(f) == (Size * f[1]) \div f[2]

\* Lines 167, 132-133: game passes its solution and its parameters to the
\* masker, which starts from a copy.  (game's parameters are bound when game
\* is called; makeBoard does not read them, so they are drawn here.)
Hide ==
    /\ pc = "game"
    /\ \E f \in Difficulties, h \in BOOLEAN :
          LET c == copy(heap, complete_board)
              g == Collect(c.heap, complete_board, c.out)
          IN  /\ heap' = g.heap
              /\ complete_board' = g.first
              /\ user_board' = g.second
              /\ num_to_hide' = NumToHide(f)
              /\ hints' = h
    /\ i' = 0
    /\ pc' = "hide"
    /\ UNCHANGED <<genVars, reply, override_reply, saved, outcome, callVars, seed, generated>>

\* Lines 135-136: one drawn cell is zeroed.
HideStep ==
    /\ pc = "hide"
    /\ i < num_to_hide
    /\ \E rc \in HideDraws :
          LET s == set_value(rc[1], rc[2], user_board, 0, heap)
              g == Collect(s.heap, complete_board, s.out)
          IN  /\ heap' = g.heap
              /\ complete_board' = g.first
              /\ user_board' = g.second
    /\ i' = i + 1
    /\ UNCHANGED <<genVars, num_to_hide, hints, reply, override_reply, saved,
                   outcome, callVars, seed, generated, pc>>

\* Lines 137, 167-169: the masker returns, the command loop starts.
HideReturn ==
    /\ pc = "hide"
    /\ i >= num_to_hide
    /\ num_to_hide' = 0
    /\ i' = 0
    /\ pc' = "loop"
    /\ UNCHANGED <<heap, genVars, complete_board, user_board, hints, reply,
                   override_reply, saved, outcome, callVars, seed, generated>>

-----------------------------------------------------------------------------
(* game *)

\* ndarray.all(): no element is zero
all(board) == \A a \in Axis, b \in Axis, c \in Axis, d \in Axis : board[a][b][c][d] # 0

\* Line 170, and its negation at line 199
Unfinished == all(heap[user_board]) # all(heap[complete_board])

\* The replies to "Set value to board" that parse to three integers.
PlayReplies ==
    {<<0, 3, 5>>, <<0, 3, 6>>, <<0, 3, 0>>, <<0, 3, 12>>, <<4, 4, 5>>,
     <<9, 3, 5>>, <<0, -1, 5>>}

\* The answers to the hint prompt.
Answers == {"y", "n"}

\* The file names given to load.
LoadNames == {"", "elsewhere"}

\* Lines 170, 199-200: the loop condition fails.
Finish ==
    /\ pc = "loop"
    /\ ~Unfinished
    /\ pc' = "over"
    /\ outcome' = "won"
    /\ UNCHANGED <<heap, genVars, complete_board, user_board, num_to_hide, i,
                   hints, reply, override_reply, saved, callVars, seed, generated>>

\* Lines 197-202: exit breaks out of the loop.
Exit ==
    /\ pc = "loop"
    /\ Unfinished
    /\ pc' = "over"
    /\ outcome' = IF ~Unfinished THEN "won" ELSE "left"
    /\ UNCHANGED <<heap, genVars, complete_board, user_board, num_to_hide, i,
                   hints, reply, override_reply, saved, callVars, seed, generated>>

\* Lines 174-178: both boards are written to files.
Save ==
    /\ pc = "loop"
    /\ Unfinished
    /\ saved' = <<heap[user_board], heap[complete_board]>>
    /\ UNCHANGED <<heap, genVars, complete_board, user_board, num_to_hide, i,
                   hints, reply, override_reply, outcome, callVars, seed, generated, pc>>

\* Lines 179-180, 140-157: with a blank name and both files found the two
\* boards are replaced by new arrays read from the files; otherwise
\* load_from_file returns names it never bound.
Load ==
    /\ pc = "loop"
    /\ Unfinished
    /\ \E fn \in LoadNames :
          IF fn = "" /\ saved # <<>>
          THEN /\ heap' = (1 :> saved[2]) @@ (2 :> saved[1])
               /\ complete_board' = 1
               /\ user_board' = 2
               /\ UNCHANGED <<outcome, pc>>
          ELSE /\ pc' = "crashed"
               /\ outcome' = "UnboundLocalError"
               /\ UNCHANGED <<heap, complete_board, user_board>>
    /\ UNCHANGED <<genVars, num_to_hide, i, hints, reply, override_reply,
                   saved, callVars, seed, generated>>

\* Lines 181-187: the reply does not parse to three integers.
PlayInvalid ==
    /\ pc = "loop"
    /\ Unfinished
    /\ UNCHANGED vars

\* Lines 181-196: the value is written; with hints on, an illegal cell is
\* questioned and, on "n", set to 0.
Play ==
    /\ pc = "loop"
    /\ Unfinished
    /\ \E m \in PlayReplies, answer \in Answers :
          LET s == set_value(m[1], m[2], user_board, m[3], heap)
              g == Collect(s.heap, complete_board, s.out)
          IN  /\ reply' = m
              /\ IF s.raised
                 THEN /\ pc' = "crashed"
                      /\ outcome' = "AssertionError"
                      /\ UNCHANGED <<heap, complete_board, user_board, override_reply>>
                 ELSE LET asked == hints /\ ~check_legal(m[1], m[2], g.heap[g.second])
                          t == set_value(m[1], m[2], g.second, 0, g.heap)
                          u == Collect(t.heap, g.first, t.out)
                          e == IF asked /\ answer = "n" THEN u ELSE g
                      IN  /\ heap' = e.heap
                          /\ complete_board' = e.first
                          /\ user_board' = e.second
                          /\ override_reply' = IF asked THEN answer ELSE ""
                          /\ UNCHANGED <<pc, outcome>>
    /\ UNCHANGED <<genVars, num_to_hide, i, hints, saved, callVars, seed, generated>>

Next ==
    \/ Advance
    \/ NextRow
    \/ Return
    \/ Exhaust
    \/ Place
    \/ Rollback
    \/ Hide
    \/ HideStep
    \/ HideReturn
    \/ Finish
    \/ Exit
    \/ Save
    \/ Load
    \/ PlayInvalid
    \/ Play

Spec == Init /\ [][Next]_vars

-----------------------------------------------------------------------------
(* Direct calls of set_value and check_legal, on boards the program can hold *)

\* The array of a row-major sequence of cell values, 0 after its end
FromFlat(seq) ==
    [a \in Axis |-> [b \in Axis |-> [c \in Axis |-> [d \in Axis |->
        LET n == 9 * (3 * a + c) + (3 * b + d) + 1
        IN  IF n <= Len(seq) THEN seq[n] ELSE 0]]]]

\* A board with flat cell p holding v
Written(brd, p, v) == [brd EXCEPT ![p[1] \div 3][p[2] \div 3][p[1] % 3][p[2] % 3] = v]

CallCells == {<<0, 3>>, <<4, 4>>, <<5, 7>>, <<8, 0>>}
CallValues == {0, 5, 12}
CallCoords == CallCells \cup {<<9, 3>>, <<0, -1>>}

\* The empty board, a generated board, a board in generation, and each of
\* them after one play move.
CallBoards ==
    LET bases == {zeros, FromFlat(Solved), FromFlat(Stalled)}
    IN  bases \cup {Written(b, p, v) : b \in bases, p \in CallCells, v \in CallValues}

CallInit ==
    /\ heap \in {(1 :> b) : b \in CallBoards}
    /\ in_board = 1 /\ out_board = NoRef
    /\ init_board = NoRef
    /\ row_idx = 0 /\ col_idx = 0
    /\ possible_values = {}
    /\ val = 0
    /\ complete_board = NoRef /\ user_board = NoRef
    /\ num_to_hide = 0 /\ i = 0
    /\ hints = FALSE
    /\ reply = <<>>
    /\ override_reply = ""
    /\ saved = <<>>
    /\ outcome = ""
    /\ seed = "solved"
    /\ generated = <<>>
    /\ written = NoneWritten
    /\ pc = "call"

\* out_board = set_value(row, col, board, value)
CallSetValue ==
    /\ pc = "call"
    /\ \E p \in CallCoords, v \in CallValues :
          LET s == set_value(p[1], p[2], in_board, v, heap)
          IN  /\ reply' = <<p[1], p[2], v>>
              /\ heap' = s.heap
              /\ out_board' = s.out
              /\ outcome' = IF s.raised THEN "AssertionError" ELSE "returned"
    /\ pc' = "called"
    /\ UNCHANGED <<genVars, complete_board, user_board, num_to_hide, i, hints,
                   override_reply, saved, seed, generated, in_board>>

\* check_legal(row, col, board)
CallCheckLegal ==
    /\ pc = "call"
    /\ \E p \in CallCoords :
          /\ reply' = p
          /\ outcome' = IF get_idx(p[1], p[2]) = AssertionError THEN "AssertionError"
                        ELSE IF check_legal(p[1], p[2], heap[in_board]) THEN "True"
                        ELSE "False"
    /\ pc' = "called"
    /\ UNCHANGED <<heap, genVars, complete_board, user_board, num_to_hide, i, hints,
                   override_reply, saved, seed, generated, callVars>>

CallNext ==
    \/ CallSetValue
    \/ CallCheckLegal

CallSpec == CallInit /\ [][CallNext]_vars

\* One step of makeBoard's loop
makeBoard == Advance \/ NextRow \/ Return \/ Exhaust \/ Place \/ Rollback

\* The interpreter keeps running makeBoard's loop.
FairSpec == Spec /\ WF_vars(makeBoard)

-----------------------------------------------------------------------------
(* The flat view of a board, as the specification describes it *)

Flat == 0 .. 8
Coords == Flat \X Flat
Digits == 1 .. 9

\* The cell at flat (r, c)
Cell(board, r, c) == board[r \div 3][c \div 3][r % 3][c % 3]

\* The other cells of the row, the column and the 3x3 block of a cell
PeersOf ==
    [r \in Flat |-> [c \in Flat |->
        {q \in Coords : /\ q # <<r, c>>
                        /\ \/ q[1] = r
                           \/ q[2] = c
                           \/ q[1] \div 3 = r \div 3 /\ q[2] \div 3 = c \div 3}]]

\* Every row, column and block holds each of 1..9 (so exactly once, no zero)
Complete(board) ==
    /\ \A r \in Flat : {Cell(board, r, c) : c \in Flat} = Digits
    /\ \A c \in Flat : {Cell(board, r, c) : r \in Flat} = Digits
    /\ \A br \in Axis, bc \in Axis :
          {board[br][bc][a][b] : a \in Axis, b \in Axis} = Digits

\* The boards the program holds
Boards == {heap[b] : b \in DOMAIN heap}

InGame == pc \in {"game", "hide", "loop", "over"} \/ (pc = "crashed" /\ generated # <<>>)

-----------------------------------------------------------------------------
(* Claims *)

\* The cell before the cursor of makeBoard
Passed == IF col_idx > 0 THEN <<row_idx, col_idx - 1>> ELSE <<row_idx - 1, 8>>

\* No other cell of the row, the column or the block of flat cell p holds
\* its value, and the cell is not empty
NoPeerEqual(brd, p) ==
    /\ Cell(brd, p[1], p[2]) # 0
    /\ \A q \in PeersOf[p[1]][p[2]] : Cell(brd, q[1], q[2]) # Cell(brd, p[1], p[2])

\* C1: every board makeBoard returns is complete and valid: each row, each
\* column and each block holds each of 1..9 exactly once, and no cell is 0;
\* the cursor moves on only from a cell that conflicts with no other.
C1_GeneratedBoardValid ==
    /\ pc = "game" => Complete(heap[complete_board]) /\ generated = heap[complete_board]
    /\ pc = "makeBoard" /\ val = 0 /\ <<row_idx, col_idx>> # <<0, 0>>
          => NoPeerEqual(heap[init_board], Passed)

C1_Witness == pc = "game" /\ Complete(heap[complete_board])

\* C2: the generator always eventually returns: under fair draws every run
\* from the all-zero board leaves makeBoard.
C2_GenerationTerminates == <>(pc # "makeBoard")

\* C3: check_legal is false on an empty cell, and otherwise true exactly
\* when no other cell of the row, the column or the block of (row, col)
\* holds the value of (row, col); with 5 at (0,0) and at (0,3), (0,3) is
\* not legal.
C3_LegalIffNoPeerEqual ==
    /\ \A brd \in Boards :
          /\ \A p \in Coords : check_legal(p[1], p[2], brd) = NoPeerEqual(brd, p)
          /\ Cell(brd, 0, 0) = 5 /\ Cell(brd, 0, 3) = 5 => ~check_legal(0, 3, brd)
    /\ outcome \in {"True", "False"} => (outcome = "True") = NoPeerEqual(heap[in_board], reply)

C3_Witness ==
    /\ pc = "called"
    /\ reply = <<0, 3>>
    /\ Cell(heap[in_board], 0, 0) = 5
    /\ Cell(heap[in_board], 0, 3) = 5
    /\ outcome = "False"

\* C4: for row and col in 0..8, get_idx returns (row div 3, col div 3,
\* row mod 3, col mod 3) in this order; the generator's write lands there.
MapperRule ==
    \A p \in Coords :
        get_idx(p[1], p[2]) = <<p[1] \div 3, p[2] \div 3, p[1] % 3, p[2] % 3>>

C4_MappingRule ==
    /\ MapperRule
    /\ pc = "makeBoard" /\ val # 0
          => heap[init_board][row_idx \div 3][col_idx \div 3][row_idx % 3][col_idx % 3] = val

C4_Witness ==
    /\ pc = "makeBoard" /\ row_idx = 5 /\ col_idx = 7 /\ val # 0
    /\ heap[init_board][1][2][2][1] = val

\* C5: get_idx is a bijection between the 81 flat coordinates and the 81
\* index tuples, (3*block_row + inner_row, 3*block_col + inner_col) maps
\* back, and (1,2,0,1) corresponds to (3,7).
MapperBijective ==
    /\ \A p \in Coords, q \in Coords : p # q => get_idx(p[1], p[2]) # get_idx(q[1], q[2])
    /\ \A t \in Axis \X Axis \X Axis \X Axis : \E p \in Coords : get_idx(p[1], p[2]) = t
    /\ \A p \in Coords :
          LET t == get_idx(p[1], p[2]) IN <<3 * t[1] + t[3], 3 * t[2] + t[4]>> = p
    /\ get_idx(3, 7) = <<1, 2, 0, 1>>

C5_MapperBijection ==
    /\ MapperBijective
    /\ pc = "makeBoard" /\ val # 0
          => LET t == get_idx(row_idx, col_idx)
             IN  /\ At(heap[init_board], t) = val
                 /\ Cell(heap[init_board], 3 * t[1] + t[3], 3 * t[2] + t[4]) = val

C5_Witness ==
    /\ pc = "makeBoard" /\ row_idx = 3 /\ col_idx = 7 /\ val # 0
    /\ At(heap[init_board], <<1, 2, 0, 1>>) = val

\* C6: set_value returns a board that holds the value at (row, col) and the
\* input's values in the other 80 cells, and leaves the input board as it
\* was.
C6_SetValueFunctional ==
    /\ \A b \in DOMAIN heap, p \in Coords, v \in CallValues :
          LET s == set_value(p[1], p[2], b, v, heap)
          IN  /\ ~s.raised
              /\ s.heap[s.out] = Written(heap[b], p, v)
              /\ \A r \in DOMAIN heap : s.heap[r] = heap[r]
    /\ outcome = "returned" =>
          /\ heap[in_board] \in CallBoards
          /\ heap[out_board] = Written(heap[in_board], reply, reply[3])

C6_Witness ==
    /\ outcome = "returned" /\ reply = <<0, 3, 12>>
    /\ Cell(heap[out_board], 0, 3) = 12
    /\ Cell(heap[in_board], 0, 3) = 6

\* The number of flat cells in which two boards differ
Differing(x, y) == Cardinality({p \in Coords : Cell(x, p[1], p[2]) # Cell(y, p[1], p[2])})

\* C7: the masker's board holds in every cell the input's value or 0,
\* differs from the input in at most num_to_hide = floor(81 * f) cells, and
\* the input is unchanged; with f = 0 it is identical to the input, and
\* for f = 1 num_to_hide is 81.
C7_HideFrame ==
    /\ NumToHide(<<0, 1>>) = 0 /\ NumToHide(<<1, 1>>) = 81 /\ NumToHide(<<1, 10>>) = 8
    /\ pc = "hide" =>
          /\ \A p \in Coords :
                Cell(heap[user_board], p[1], p[2]) \in {0, Cell(generated, p[1], p[2])}
          /\ Differing(heap[user_board], generated) <= i
          /\ i <= num_to_hide
          /\ num_to_hide = 0 => heap[user_board] = generated
          /\ heap[complete_board] = generated

C7_Witness ==
    /\ pc = "hide" /\ num_to_hide = 8 /\ i = 8
    /\ Differing(heap[user_board], generated) = 3

\* C8: once generation is over, the solution board stays cell for cell the
\* board makeBoard returned, whatever is masked, played, reverted or saved.
C8_SolutionUntouched == InGame => heap[complete_board] = generated

C8_Witness ==
    /\ pc = "loop" /\ override_reply = "n" /\ saved # <<>>
    /\ heap[user_board] # generated
    /\ saved[1] # heap[user_board]
    /\ heap[complete_board] = generated

\* Coordinates outside 0..8
OutOfRange == {<<9, 3>>, <<0, -1>>, <<-1, 0>>, <<3, 9>>, <<10, 10>>}

MapperRejects == \A p \in OutOfRange : get_idx(p[1], p[2]) = AssertionError

\* C9: with a row or col outside 0..8, get_idx and set_value end in the
\* error: no tuple and no board is produced, the boards are as they were,
\* and game does not go on after such a play command.
C9_BadCoordinateRaises ==
    /\ MapperRejects
    /\ \A b \in DOMAIN heap, p \in OutOfRange, v \in {0, 5} :
          LET s == set_value(p[1], p[2], b, v, heap)
          IN  s.raised /\ s.out = NoRef /\ s.heap = heap
    /\ reply # <<>> /\ <<reply[1], reply[2]>> \notin Coords
          => pc = "crashed" /\ outcome = "AssertionError"

C9_Witness == pc = "crashed" /\ reply = <<9, 3, 5>> /\ outcome = "AssertionError"

\* C10: set_value refuses a value outside 0..9 with an error, so game does
\* not go on after a play command with such a value, and no board ever
\* holds a cell value outside 0..9.
C10_CellValuesInRange ==
    /\ reply # <<>> /\ reply[3] \notin 0 .. 9 => pc = "crashed"
    /\ \A brd \in Boards : \A p \in Coords : Cell(brd, p[1], p[2]) \in 0 .. 9

\* The 27 regions, as sets of array indices: the blocks, the flat rows and
\* the flat columns
Regions ==
    {{<<a, b, c, d>> : c \in Axis, d \in Axis} : a \in Axis, b \in Axis}
        \cup {{<<a, b, c, d>> : b \in Axis, d \in Axis} : a \in Axis, c \in Axis}
        \cup {{<<a, b, c, d>> : a \in Axis, c \in Axis} : b \in Axis, d \in Axis}

\* No region holds the same non-zero value twice
PartialValid(brd) ==
    \A reg \in Regions :
        Cardinality({At(brd, t) : t \in reg} \ {0}) = Cardinality({t \in reg : At(brd, t) # 0})

\* C11 as stated: every board the generator holds, the one right after a
\* candidate was written at the cursor included, and every board the masker
\* returns, has no block, row or column with a non-zero value twice.
C11_PartialValidAlways ==
    /\ pc = "makeBoard" => PartialValid(heap[init_board])
    /\ pc = "hide" => PartialValid(heap[user_board])

\* C11, amended: the generator's board has no such repeat among the cells
\* other than the cursor cell, and has none at all whenever the cursor cell
\* passes check_legal; every board returned by the masker has none.
C11_PartialValidButCursor ==
    /\ pc = "makeBoard" =>
          /\ PartialValid(Written(heap[init_board], <<row_idx, col_idx>>, 0))
          /\ Legal => PartialValid(heap[init_board])
    /\ pc = "hide" => PartialValid(heap[user_board])

C11_Witness ==
    /\ pc = "makeBoard" /\ val # 0 /\ ~Legal
    /\ ~PartialValid(heap[init_board])
    /\ PartialValid(Written(heap[init_board], <<row_idx, col_idx>>, 0))

\* The row-major position of a flat cell
Pos(p) == 9 * p[1] + p[2]

\* C12: whenever makeBoard tests the cursor cell, every cell before the
\* cursor holds a digit 1..9, these cells are pairwise conflict-free, and
\* every cell after the cursor is 0.
C12_PrefixInvariant ==
    pc = "makeBoard" =>
        /\ \A q \in Coords :
              /\ Pos(q) < Pos(<<row_idx, col_idx>>) => Cell(heap[init_board], q[1], q[2]) \in Digits
              /\ Pos(q) > Pos(<<row_idx, col_idx>>) => Cell(heap[init_board], q[1], q[2]) = 0
        /\ PartialValid(Written(heap[init_board], <<row_idx, col_idx>>, 0))

\* The test right after a rollback: the cursor is on a cell that was kept
C12_Witness ==
    /\ pc = "makeBoard" /\ val = 0 /\ Pos(<<row_idx, col_idx>>) >= 43
    /\ Cell(heap[init_board], row_idx, col_idx) # 0
    /\ col_idx < 8 /\ Cell(heap[init_board], row_idx, col_idx + 1) = 0

\* C13: the rollback count min(rollback_factor, col + row*8) is at most the
\* cursor's position 9*row + col, row and col stay in 0..8 throughout
\* generation, and makeBoard never ends in the mapper's range error.
C13_CursorInRange ==
    /\ pc = "makeBoard" =>
          /\ row_idx \in Flat /\ col_idx \in Flat
          /\ Min(rollback_factor, col_idx + row_idx * 8) <= Pos(<<row_idx, col_idx>>)
    /\ generated = <<>> => pc = "makeBoard" /\ outcome # "AssertionError"

\* After a rollback of 8 from position 51
C13_Witness ==
    /\ pc = "makeBoard" /\ val = 0 /\ possible_values = FullPool
    /\ row_idx = 4 /\ col_idx = 7
    /\ Cell(heap[init_board], 4, 7) # 0 /\ Cell(heap[init_board], 5, 6) = 0

\* C14: a rollback of k steps from position p sets the k cells at p, p-1,
\* ..., p-k+1 to 0, leaves every other cell as it was (the cell at p-k,
\* under the new cursor, too), moves the cursor back by k positions in
\* row-major order, and resets the pool to the full set.
C14_RollbackFrame ==
    [][AtCheck /\ ~Legal /\ possible_values = {} =>
          LET k == Min(rollback_factor, col_idx + row_idx * 8)
              p == Pos(<<row_idx, col_idx>>)
          IN  /\ row_idx' \in Flat /\ col_idx' \in Flat
              /\ Pos(<<row_idx', col_idx'>>) = p - k
              /\ \A q \in Coords :
                    Cell(heap'[init_board'], q[1], q[2]) =
                        IF p - k < Pos(q) /\ Pos(q) <= p THEN 0
                        ELSE Cell(heap[init_board], q[1], q[2])
              /\ possible_values' = FullPool
              /\ val' = 0
              /\ pc' = "makeBoard"]_vars

\* After the rollback of 8 from (5, 6), which crossed a row boundary
C14_Witness ==
    /\ pc = "makeBoard" /\ val = 0 /\ possible_values = FullPool
    /\ row_idx = 4 /\ col_idx = 7
    /\ Cell(heap[init_board], 4, 6) = 2 /\ Cell(heap[init_board], 4, 7) = 5
    /\ Cell(heap[init_board], 4, 8) = 0 /\ Cell(heap[init_board], 5, 0) = 0

\* A step of makeBoard that moves the cursor back
RolledBack ==
    /\ pc = "makeBoard" /\ pc' \in {"makeBoard", "crashed"}
    /\ Pos(<<row_idx', col_idx'>>) < Pos(<<row_idx, col_idx>>)

\* C15: a rollback happens only at a dead end: the pool is empty and, since
\* it was last reset, every digit 1..9 has been written to the cursor cell
\* and found illegal (a candidate is replaced only when check_legal rejects
\* it); none happens while a digit remains in the pool.
C15_RollbackOnlyAtDeadEnd ==
    [][/\ RolledBack => /\ possible_values = {}
                        /\ ~Legal
                        /\ \A d \in Digits : written[d] >= 1
       /\ pc = "makeBoard" /\ written' # written /\ written' # NoneWritten => ~Legal]_vars

\* The dead end: all nine digits written, the last one rejected, pool empty
C15_Witness ==
    /\ pc = "makeBoard" /\ ~Legal /\ possible_values = {}
    /\ \A d \in Digits : written[d] = 1
    /\ val \in Digits

\* C16: the cursor moves forward only from a cell check_legal accepts, to
\* exactly the next cell in row-major order, with a full pool and the board
\* as it was; makeBoard returns only from (8, 8), when that cell is accepted
\* and all 81 cells hold a digit.
C16_AdvanceOnlyWhenLegal ==
    [][/\ /\ pc = "makeBoard" /\ pc' = "makeBoard"
          /\ Pos(<<row_idx', col_idx'>>) > Pos(<<row_idx, col_idx>>)
          => /\ check_legal(row_idx, col_idx, heap[init_board])
             /\ <<row_idx', col_idx'>> =
                   IF col_idx < 8 THEN <<row_idx, col_idx + 1>> ELSE <<row_idx + 1, 0>>
             /\ possible_values' = FullPool
             /\ heap'[init_board'] = heap[init_board]
       /\ pc = "makeBoard" /\ pc' = "game"
          => /\ check_legal(row_idx, col_idx, heap[init_board])
             /\ <<row_idx, col_idx>> = <<8, 8>>
             /\ generated' = heap[init_board]
             /\ \A q \in Coords : Cell(generated', q[1], q[2]) \in Digits]_vars

\* The cursor has just moved from (0, 8) to (1, 0)
C16_Witness ==
    /\ pc = "makeBoard" /\ row_idx = 1 /\ col_idx = 0
    /\ val = 0 /\ possible_values = FullPool
    /\ check_legal(0, 8, heap[init_board])
    /\ Cell(heap[init_board], 1, 0) = 0

\* The digits written to the cursor cell since the pool was reset
Tried == {d \in 0 .. 9 : written[d] >= 1}

\* C17: between two resets of the pool every attempt writes to the cursor
\* cell a candidate that is in the pool and was not written before; the
\* failed candidate leaves the pool, 0 leaves it before the first draw so
\* only 1..9 are written, and a cell sees at most 9 placements per visit.
C17_AttemptsFromPool ==
    /\ [](pc = "makeBoard" =>
            /\ \A d \in 0 .. 9 : written[d] <= 1
            /\ Tried \subseteq Digits
            /\ Tried # {} => /\ val \in Tried
                             /\ possible_values = {} \/ val \in possible_values
                             /\ possible_values \ {val} = FullPool \ ({0} \cup Tried)
            /\ Tried = {} => possible_values = FullPool /\ val = 0)
    /\ [][pc = "makeBoard" /\ written' # written /\ written' # NoneWritten =>
            /\ val' \in possible_values \ {val}
            /\ val' \in Digits \ Tried
            /\ written' = [written EXCEPT ![val'] = 1]
            /\ possible_values' = possible_values \ {val}
            /\ Cell(heap'[init_board'], row_idx, col_idx) = val'
            /\ <<row_idx', col_idx'>> = <<row_idx, col_idx>>]_vars

\* The third attempt at a cell: 0 and two failed digits have left the pool
C17_Witness ==
    /\ pc = "makeBoard" /\ Cardinality(Tried) = 3
    /\ Cardinality(possible_values) = 7
    /\ val \in possible_values
    /\ Cell(heap[init_board], row_idx, col_idx) = val

\* The digits that no cell of the row, column and block of flat cell p holds
Candidates(brd, p) == Digits \ {Cell(brd, q[1], q[2]) : q \in PeersOf[p[1]][p[2]]}

\* A conflict-free board can be completed to a full valid board: a search
\* that fills an empty cell with the fewest candidates first.
RECURSIVE Completable(_)
Completable(brd) ==
    LET empty == {p \in Coords : Cell(brd, p[1], p[2]) = 0}
    IN  IF empty = {} THEN TRUE
        ELSE LET least == CHOOSE n \in 0 .. 9 :
                              /\ \E p \in empty : Cardinality(Candidates(brd, p)) = n
                              /\ \A p \in empty : Cardinality(Candidates(brd, p)) >= n
                 cell  == CHOOSE p \in empty : Cardinality(Candidates(brd, p)) = least
             IN  \E d \in Candidates(brd, cell) : Completable(Written(brd, cell, d))

\* C18: every conflict-free partial board the generator reaches (digits
\* before the cursor, zeros after it) can be completed to a full valid
\* board.
C18_PrefixCompletable ==
    pc = "makeBoard" /\ val = 0 /\ PartialValid(heap[init_board])
        => Completable(heap[init_board])

\* C19: the session announces a win only when the user's working board
\* equals the solution board in every one of the 81 cells.
C19_WinOnlyWhenSolved ==
    outcome = "won" => heap[user_board] = heap[complete_board]

\* C20: with hints on, a play move that fails check_legal and is declined
\* leaves the working board exactly as it was before the move, whatever the
\* target cell held.
C20_DeclinedMoveRestores ==
    [][Play /\ override_reply' = "n" => heap'[user_board'] = heap[user_board]]_vars

=============================================================================
